---- MODULE Spec2Model ----
(***************************************************************************)
(* GoodWe SEMS wallbox integration: the SemsApi client (login, token       *)
(* cache, status fetch with its v4 fallback, commands), the config flow    *)
(* and the options flow, the SemsUpdateCoordinator poll driver, and the    *)
(* switch, number and select entities with their optimistic state.         *)
(*                                                                         *)
(* The host runs coroutines on one event loop and hands every blocking     *)
(* SemsApi call to an executor thread (async_add_executor_job).  The model *)
(* has one executor job for the coordinator's poll ("poll") and one for an *)
(* entity's command ("cmd"); the two share one SemsApi object and run      *)
(* interleaved, one step per access of SemsApi._token or HTTP exchange.    *)
(***************************************************************************)
EXTENDS Integers, FiniteSets, TLC

VARIABLES
    token,                \* SemsApi._token: NoToken (None) or the token of a login
    pc,                   \* per job: position inside the SemsApi call
    op,                   \* per job: "getData", "change_status", "set_charge_mode"
    renewToken,           \* per job: argument renewToken of the current (recursive) call
    maxTokenRetries,      \* per job: argument maxTokenRetries of the current call
    hdr,                  \* per job: the token put in the request headers
    ret,                  \* per job: how the top-level call ended
    nReq,                 \* per job: status/command requests sent by this operation
    nRenewLogin,          \* per job: logins sent by _ensure_token(renew=True) in this operation
    nAttemptLogin,        \* per job: logins sent by the current call (one attempt)
    nAttemptReq,          \* per job: status/command requests sent by the current call (one attempt)
    nExpired,             \* per job: 'authorization has expired' answers handled
    met,                  \* per job: the class of the last answer the operation received
    loaded,               \* the config entry is set up (entities exist)
    data,                 \* coordinator.data: dict serial number -> reading
    last_update,          \* the last finished poll: its outcome ("none", "success",
                          \* "UpdateFailed"), what getData returned and what it met
    refresh_requested,    \* an async_request_refresh() is scheduled
    sw_sn,                \* SemsSwitch.sn
    attr_is_on,           \* SemsSwitch._attr_is_on
    last_command_target,  \* SemsSwitch._last_command_target: {} (None), {TRUE}, {FALSE}
    last_command_ts,      \* SemsSwitch._last_command_ts: {} (None) or {time}
    num_created,          \* a SemsNumber entity exists
    num_sn,               \* SemsNumber.sn
    native_value,         \* SemsNumber._attr_native_value: {} (None) or {tenths of kW}
    sel_created,          \* an InverterOperationModeEntity exists
    sel_sn,               \* InverterOperationModeEntity.sn
    current_option,       \* InverterOperationModeEntity._attr_current_option
    current_charge_power, \* InverterOperationModeEntity._current_charge_power
    selected,             \* the option of the most recent async_select_option call
    cmd_args,             \* the entity that called and the arguments of the command
                          \* the "cmd" job executes
    now,                  \* hass.loop.time(), in seconds
    hist,                 \* history of the switch: the most recent command and what followed
    stale,                \* vendor: the tokens it issued and no longer accepts
    recovered,            \* vendor: it accepts every login and never drops a token again
    use_v4,               \* _USE_V4_STATUS
    entry,                \* the config entry: whether it exists, scan_interval in data and options
    update_interval,      \* update_interval of the coordinator built last: {} or {seconds}
    flow                  \* the config flow: its step, the token of its SemsApi, the error
                          \* shown, the scan_interval submitted, the answer to its login

apiVars == <<token, pc, op, renewToken, maxTokenRetries, hdr, ret, nReq, nRenewLogin,
             nAttemptLogin, nAttemptReq, nExpired, met>>
coordVars == <<loaded, data, last_update, refresh_requested>>
switchVars == <<sw_sn, attr_is_on, last_command_target, last_command_ts, hist>>
numberVars == <<num_created, num_sn, native_value>>
selectVars == <<sel_created, sel_sn, current_option, current_charge_power, selected>>
entityVars == <<switchVars, numberVars, selectVars, cmd_args>>
vendorVars == <<stale, recovered>>
configVars == <<use_v4, entry, update_interval, flow>>
vars == <<apiVars, coordVars, entityVars, now, vendorVars, configVars>>

----------------------------------------------------------------------------
(* Bounds of the model *)

NumTokens == 4     \* distinct token values the vendor hands out (reused when unreferenced)
TimeStep == 65     \* seconds the clock advances per step
MaxTime == 260     \* the clock stops here

(* Program constants *)

GRACE_ON_SECONDS == 130
GRACE_OFF_SECONDS == 130
FAST_THRESHOLD == 42   \* 4.2 kW, in tenths of kW

----------------------------------------------------------------------------
(* Values *)

Jobs == {"poll", "cmd"}
NoToken == 0
TokenIds == 1..NumTokens
None == {}
Some(x) == {x}

STATION_ID == "SN1"                 \* entry.data[CONF_STATION_ID]
SerialNumbers == {"SN1", "SN2"}
NoSn == ""                          \* a reading without "sn" (None or empty)
STATUS_CHARGING == "EVDetail_Status_Title_Charging"
STATUS_WAITING == "EVDetail_Status_Title_Waiting"

NoMode == -1                        \* a reading without "chargeMode"
NoPower == -1                       \* set_charge_power is null
BadPower == -2                      \* set_charge_power is not numeric
PowerValues == {42, 70}             \* charge powers, in tenths of kW
MaxPowerValues == {70, 110}         \* max_charge_power, in tenths of kW
ChargeModes == {0, 1, 2, 5}         \* chargeMode as the vendor may report it

Readings == [sn : SerialNumbers \cup {NoSn},
             status : {STATUS_CHARGING, STATUS_WAITING},
             power : {0, 7},
             chargeMode : {NoMode} \cup ChargeModes,
             set_charge_power : {NoPower, BadPower} \cup PowerValues,
             max_charge_power : {NoPower} \cup MaxPowerValues]
NoReading == [sn |-> NoSn, status |-> "", power |-> 0, chargeMode |-> NoMode,
              set_charge_power |-> NoPower, max_charge_power |-> NoPower]
ReadingOf(s, st, p, m, scp, mcp) ==
    [sn |-> s, status |-> st, power |-> p, chargeMode |-> m, set_charge_power |-> scp,
     max_charge_power |-> mcp]
\* A reading of a wallbox that can charge with up to 11 kW.
Reading(s, st, p, m, scp) == ReadingOf(s, st, p, m, scp, 110)
NoArgs == [entity |-> "", sn |-> NoSn, arg |-> 0, power |-> NoPower]
EmptyDict == [s \in {} |-> NoReading]

\* The vendor's answer to CrossLogin.
LoginAnswers == {"ok", "has_error", "bad_code", "http_error", "exception"}

\* The vendor's answer to a status request: the transport outcome, the "data"
\* member (has_data, with the reading) and whether msg says the authorization
\* has expired.
StatusAnswers(R) ==
    [http : {"ok"}, has_data : {TRUE}, reading : R, expired : BOOLEAN]
    \cup [http : {"ok"}, has_data : {FALSE}, reading : {NoReading}, expired : BOOLEAN]
    \cup [http : {"error", "exception"}, has_data : {FALSE}, reading : {NoReading},
          expired : {FALSE}]

\* The vendor's answer to a status request when the v4 endpoint is in use: the
\* transport outcome tells a 404 from other HTTP errors, and success says
\* whether msg carries the vendor's success text.
V4StatusAnswers(R) ==
    [http : {"ok"}, has_data : {TRUE}, reading : R, expired : {FALSE}, success : {TRUE}]
    \cup [http : {"ok"}, has_data : {FALSE}, reading : {NoReading}, expired : BOOLEAN,
          success : BOOLEAN]
    \cup [http : {"404", "error", "exception"}, has_data : {FALSE}, reading : {NoReading},
          expired : {FALSE}, success : {FALSE}]

\* The vendor's answer to a command request: transport exception or a response
\* with its status code, whether the body is a JSON object, whether its "data"
\* is null, whether msg says the authorization has expired, and whether the
\* body reports a vendor error (hasError / non-zero code).
CommandAnswers ==
    [http : {"exception"}, is_dict : {FALSE}, data_none : {TRUE}, expired : {FALSE},
     has_error : {FALSE}]
    \cup [http : {"200", "non200"}, is_dict : {FALSE}, data_none : {TRUE},
          expired : {FALSE}, has_error : {FALSE}]
    \cup [http : {"200", "non200"}, is_dict : {TRUE}, data_none : BOOLEAN,
          expired : BOOLEAN, has_error : BOOLEAN]

----------------------------------------------------------------------------
(* SemsApi helpers *)

\* _fetch_login_token returns a token dict (TRUE) or None (FALSE).
LoginSucceeds(ans) == ans = "ok"

\* _ensure_token: the condition under which a login request is sent.
NeedLogin(tok, renew) == tok = NoToken \/ renew

\* Variant of the head guard that lets one more retry through.
RetriesExhaustedLate(retries) == retries < -1

\* The guard at the head of getData / change_status / set_charge_mode.
RetriesExhausted(retries) == retries < 0

\* Variant of the retry budget that is never used up.
NextRetriesKept(retries) == retries

\* The budget handed to the recursive call after an expiry answer.
NextRetries(retries) == retries - 1

\* The default value of maxTokenRetries.
DefaultMaxTokenRetries == 1

\* Variant of the expiry test that takes every answer without data for an expiry.
StatusExpiredAnyMessage(ans) == ans.http = "ok" /\ ~ans.has_data

\* getData: "data is None and 'authorization has expired' in msg.lower()".
StatusExpired(ans) == ans.http = "ok" /\ ~ans.has_data /\ ans.expired

\* change_status / set_charge_mode: the outer condition "not successful".
CommandUnsuccessful(ans) ==
    ans.http = "non200" \/ (ans.is_dict /\ ans.data_none /\ ans.expired)

\* change_status / set_charge_mode: the inner condition "retry with a new token".
CommandRetry(ans, retries) == ans.is_dict /\ ans.expired /\ retries > 0

\* The token a successful login returns: a value no job and no cache refers to.
FreshToken == CHOOSE t \in TokenIds :
    /\ t \notin ({token} \cup {hdr[j] : j \in Jobs})
    /\ \A u \in TokenIds : u \notin ({token} \cup {hdr[j] : j \in Jobs}) => t <= u

\* Variant in which a failed login leaves the cached token alone.
TokenKeptAfterFailedLogin(ans, old) == IF LoginSucceeds(ans) THEN FreshToken ELSE old

\* _ensure_token: self._token after _fetch_login_token has returned.
TokenAfterLogin(ans, old) == IF LoginSucceeds(ans) THEN FreshToken ELSE NoToken

InFlight(j) == pc[j] \in {"login", "login_b", "post", "post_v3_404", "post_v3_nodata"}

----------------------------------------------------------------------------
(* How a call ends *)

Running == [kind |-> "running", reading |-> NoReading]
ReturnNone == [kind |-> "None", reading |-> NoReading]
RaiseOutOfRetries == [kind |-> "OutOfRetries", reading |-> NoReading]
ReturnData(r) == [kind |-> "data", reading |-> r]

\* Variant in which every operation lets OutOfRetries out.
OutOfRetriesEscapes(o) == RaiseOutOfRetries

\* Variant in which getData swallows OutOfRetries like the commands do.
SwallowOutOfRetries(o) == ReturnNone

\* An OutOfRetries raised inside the call: getData re-raises it, the commands
\* catch it with every other exception and return None.
OnOutOfRetries(o) == IF o = "getData" THEN RaiseOutOfRetries ELSE ReturnNone

\* Any other exception inside the call is logged and the call returns None.
OnException(o) == ReturnNone

\* What a command returns when the vendor accepted it.
CommandSuccessReturn == ReturnNone

\* What the vendor's answer was, whatever the client makes of it.
LoginClass(ans) == IF ans = "ok" THEN "none" ELSE "login_failed"
StatusClass(ans) ==
    IF ans.http = "exception" THEN "network"
    ELSE IF ans.http \in {"error", "404"} THEN "http"
    ELSE IF ~ans.has_data /\ ans.expired THEN "expired"
    ELSE IF ~ans.has_data THEN "no_data"
    ELSE "none"
CommandClass(ans) ==
    IF ans.http = "exception" THEN "network"
    ELSE IF ans.is_dict /\ ans.expired /\ (ans.data_none \/ ans.http = "non200") THEN "expired"
    ELSE IF ans.http = "non200" THEN "http"
    ELSE IF ans.is_dict /\ ans.has_error THEN "vendor_error"
    ELSE "none"

\* The call of job j ends with r.
End(j, r) ==
    /\ pc' = [pc EXCEPT ![j] = "done"]
    /\ ret' = [ret EXCEPT ![j] = r]

\* The job's call has returned and its frame is gone.
Release(j) ==
    /\ pc' = [pc EXCEPT ![j] = "idle"]
    /\ renewToken' = [renewToken EXCEPT ![j] = FALSE]
    /\ maxTokenRetries' = [maxTokenRetries EXCEPT ![j] = DefaultMaxTokenRetries]
    /\ hdr' = [hdr EXCEPT ![j] = NoToken]
    /\ ret' = [ret EXCEPT ![j] = Running]
    /\ nReq' = [nReq EXCEPT ![j] = 0]
    /\ nRenewLogin' = [nRenewLogin EXCEPT ![j] = 0]
    /\ nAttemptLogin' = [nAttemptLogin EXCEPT ![j] = 0]
    /\ nAttemptReq' = [nAttemptReq EXCEPT ![j] = 0]
    /\ nExpired' = [nExpired EXCEPT ![j] = 0]
    /\ met' = [met EXCEPT ![j] = "none"]
    /\ UNCHANGED op

\* What is remembered of a finished poll: the outcome of _async_update_data,
\* how getData ended, the last answer it met, the expiry answers it got and the
\* reading it returned.
PollRecord(outcome) ==
    [outcome |-> outcome, kind |-> ret["poll"].kind, met |-> met["poll"],
     expired |-> nExpired["poll"], reading |-> ret["poll"].reading]
NoPoll == [outcome |-> "none", kind |-> "running", met |-> "none", expired |-> 0,
           reading |-> NoReading]
\* While the next poll runs only the outcome of the last one is kept.
PollStarted(rec) == [NoPoll EXCEPT !.outcome = rec.outcome]

\* A top-level call of operation o in job j with the default arguments; the
\* head of the call raises OutOfRetries when the budget is below zero.
Call(j, o) ==
    /\ pc' = [pc EXCEPT ![j] =
                IF RetriesExhausted(DefaultMaxTokenRetries) THEN "done" ELSE "ensure"]
    /\ op' = [op EXCEPT ![j] = o]
    /\ renewToken' = [renewToken EXCEPT ![j] = FALSE]
    /\ maxTokenRetries' = [maxTokenRetries EXCEPT ![j] = DefaultMaxTokenRetries]
    /\ hdr' = [hdr EXCEPT ![j] = NoToken]
    /\ ret' = [ret EXCEPT ![j] =
                 IF RetriesExhausted(DefaultMaxTokenRetries) THEN OnOutOfRetries(o)
                 ELSE Running]
    /\ nReq' = [nReq EXCEPT ![j] = 0]
    /\ nRenewLogin' = [nRenewLogin EXCEPT ![j] = 0]
    /\ nAttemptLogin' = [nAttemptLogin EXCEPT ![j] = 0]
    /\ nAttemptReq' = [nAttemptReq EXCEPT ![j] = 0]
    /\ nExpired' = [nExpired EXCEPT ![j] = 0]
    /\ met' = [met EXCEPT ![j] = "none"]

\* The recursive call after an expiry answer: the cached token is dropped and
\* the call is entered again with renewToken=True and one retry less; its
\* head raises OutOfRetries when that budget is below zero.
Retry(j) ==
    /\ token' = NoToken
    /\ renewToken' = [renewToken EXCEPT ![j] = TRUE]
    /\ maxTokenRetries' = [maxTokenRetries EXCEPT ![j] = NextRetries(maxTokenRetries[j])]
    /\ nAttemptLogin' = [nAttemptLogin EXCEPT ![j] = 0]
    /\ nAttemptReq' = [nAttemptReq EXCEPT ![j] = 0]
    /\ IF RetriesExhausted(NextRetries(maxTokenRetries[j]))
       THEN End(j, OnOutOfRetries(op[j]))
       ELSE /\ pc' = [pc EXCEPT ![j] = "ensure"]
            /\ UNCHANGED ret

\* The call returns r without a further request.
Return(j, r) ==
    /\ End(j, r)
    /\ UNCHANGED <<token, renewToken, maxTokenRetries, nAttemptLogin, nAttemptReq>>

----------------------------------------------------------------------------
(* Steps of a SemsApi call in an executor job *)

\* _ensure_token(renew=renewToken): reads the cache and sends a login request
\* when there is no token or a renewal is asked for.
EnsureToken(j) ==
    /\ pc[j] = "ensure"
    /\ IF NeedLogin(token, renewToken[j])
       THEN /\ pc' = [pc EXCEPT ![j] = "login"]
            /\ nAttemptLogin' = [nAttemptLogin EXCEPT ![j] = nAttemptLogin[j] + 1]
            /\ nRenewLogin' = [nRenewLogin EXCEPT ![j] =
                                 IF renewToken[j] THEN nRenewLogin[j] + 1 ELSE nRenewLogin[j]]
       ELSE /\ pc' = [pc EXCEPT ![j] = "build"]
            /\ UNCHANGED <<nAttemptLogin, nRenewLogin>>
    /\ UNCHANGED <<token, op, renewToken, maxTokenRetries, hdr, ret, nReq, nAttemptReq,
                   nExpired, met>>
    /\ UNCHANGED <<coordVars, entityVars, now, vendorVars, configVars>>

\* The login of _ensure_token(renew=renewToken) is answered: the token is
\* cached, or the cache is cleared and the call returns None.
LoginReply(j, ans) ==
    /\ pc[j] = "login"
    /\ met' = [met EXCEPT ![j] = LoginClass(ans)]
    /\ token' = TokenAfterLogin(ans, token)
    /\ IF LoginSucceeds(ans)
       THEN /\ pc' = [pc EXCEPT ![j] = "build"]
            /\ UNCHANGED ret
       ELSE End(j, ReturnNone)
    /\ UNCHANGED <<op, renewToken, maxTokenRetries, hdr, nReq, nRenewLogin,
                   nAttemptLogin, nAttemptReq, nExpired>>
    /\ stale' = stale \ {token'}
    /\ UNCHANGED <<coordVars, entityVars, now, recovered, configVars>>

\* _build_headers: its own _ensure_token() reads the cache again and logs in
\* when the cache is empty.
BuildHeaders(j) ==
    /\ pc[j] = "build"
    /\ IF NeedLogin(token, FALSE)
       THEN /\ pc' = [pc EXCEPT ![j] = "login_b"]
            /\ nAttemptLogin' = [nAttemptLogin EXCEPT ![j] = nAttemptLogin[j] + 1]
       ELSE /\ pc' = [pc EXCEPT ![j] = "hdr"]
            /\ UNCHANGED nAttemptLogin
    /\ UNCHANGED <<token, op, renewToken, maxTokenRetries, hdr, ret, nReq, nRenewLogin,
                   nAttemptReq, nExpired, met>>
    /\ UNCHANGED <<coordVars, entityVars, now, vendorVars, configVars>>

\* The login of _build_headers is answered: on failure _build_headers raises
\* OutOfRetries("Could not obtain SEMS token").
BuildLoginReply(j, ans) ==
    /\ pc[j] = "login_b"
    /\ met' = [met EXCEPT ![j] = LoginClass(ans)]
    /\ token' = TokenAfterLogin(ans, token)
    /\ IF LoginSucceeds(ans)
       THEN /\ pc' = [pc EXCEPT ![j] = "hdr"]
            /\ UNCHANGED ret
       ELSE End(j, OnOutOfRetries(op[j]))
    /\ UNCHANGED <<op, renewToken, maxTokenRetries, hdr, nReq, nRenewLogin,
                   nAttemptLogin, nAttemptReq, nExpired>>
    /\ stale' = stale \ {token'}
    /\ UNCHANGED <<coordVars, entityVars, now, recovered, configVars>>

\* _build_headers reads self._token into the headers (json.dumps(self._token))
\* and the request is posted.
SendRequest(j) ==
    /\ pc[j] = "hdr"
    /\ hdr' = [hdr EXCEPT ![j] = token]
    /\ pc' = [pc EXCEPT ![j] = "post"]
    /\ nReq' = [nReq EXCEPT ![j] = nReq[j] + 1]
    /\ nAttemptReq' = [nAttemptReq EXCEPT ![j] = nAttemptReq[j] + 1]
    /\ UNCHANGED <<token, op, renewToken, maxTokenRetries, ret, nRenewLogin,
                   nAttemptLogin, nExpired, met>>
    /\ UNCHANGED <<coordVars, entityVars, now, vendorVars, configVars>>

\* getData from "data = json_response.get('data')" on, without the v4
\* fallback: expiry, no data, or the reading; any exception gives None.
HandleStatus(j, ans) ==
    /\ met' = [met EXCEPT ![j] = StatusClass(ans)]
    /\ nExpired' = [nExpired EXCEPT ![j] =
                      IF StatusClass(ans) = "expired" THEN nExpired[j] + 1 ELSE nExpired[j]]
    /\ IF ans.http # "ok" THEN Return(j, OnException(op[j]))
       ELSE IF StatusExpired(ans) THEN Retry(j)
       ELSE IF ~ans.has_data THEN Return(j, ReturnNone)
       ELSE Return(j, ReturnData(ans.reading))

\* getData handles the answer to its status request (v3 endpoint in use).
GetDataReply(j, ans) ==
    /\ ~use_v4
    /\ pc[j] = "post"
    /\ op[j] = "getData"
    /\ HandleStatus(j, ans)
    /\ UNCHANGED <<op, hdr, nReq, nRenewLogin>>
    /\ UNCHANGED <<coordVars, entityVars, now, vendorVars, configVars>>

\* "v4 endpoint 404": the HTTPError handler's condition.
V4NotFound(ans) == ans.http = "404"

\* "v4 endpoint returned success but no data": data is None and the success
\* text is in msg.
V4SuccessNoData(ans) == ans.http = "ok" /\ ~ans.has_data /\ ans.success

\* A fallback request goes to the v3 endpoint with the same headers.
FallbackToV3(j, next) ==
    /\ pc' = [pc EXCEPT ![j] = next]
    /\ nReq' = [nReq EXCEPT ![j] = nReq[j] + 1]
    /\ nAttemptReq' = [nAttemptReq EXCEPT ![j] = nAttemptReq[j] + 1]
    /\ UNCHANGED <<token, renewToken, maxTokenRetries, ret, nAttemptLogin, nExpired, met>>

\* getData with the v4 endpoint in use: the answer to the v4 request.
V4Reply(j, ans) ==
    /\ use_v4
    /\ pc[j] = "post"
    /\ op[j] = "getData"
    /\ IF V4NotFound(ans) THEN FallbackToV3(j, "post_v3_404")
       ELSE IF V4SuccessNoData(ans) THEN FallbackToV3(j, "post_v3_nodata")
       ELSE HandleStatus(j, ans) /\ UNCHANGED nReq
    /\ UNCHANGED <<op, hdr, nRenewLogin>>
    /\ UNCHANGED <<coordVars, entityVars, now, vendorVars, configVars>>

\* The answer to the v3 request sent after a 404: it takes the place of the
\* v4 answer, and the check for success without data follows as before.
V3AfterNotFoundReply(j, ans) ==
    /\ pc[j] = "post_v3_404"
    /\ IF V4SuccessNoData(ans) THEN FallbackToV3(j, "post_v3_nodata")
       ELSE HandleStatus(j, ans) /\ UNCHANGED nReq
    /\ UNCHANGED <<op, hdr, nRenewLogin>>
    /\ UNCHANGED <<coordVars, entityVars, now, vendorVars, configVars>>

\* The answer to the v3 request sent after a v4 success without data: its
\* data and msg are what the rest of getData looks at.
V3AfterNoDataReply(j, ans) ==
    /\ pc[j] = "post_v3_nodata"
    /\ HandleStatus(j, ans)
    /\ UNCHANGED <<op, hdr, nReq, nRenewLogin>>
    /\ UNCHANGED <<coordVars, entityVars, now, vendorVars, configVars>>

\* change_status / set_charge_mode handle the answer to their command request.
CommandReply(j, ans) ==
    /\ pc[j] = "post"
    /\ op[j] \in {"change_status", "set_charge_mode"}
    /\ met' = [met EXCEPT ![j] = CommandClass(ans)]
    /\ nExpired' = [nExpired EXCEPT ![j] =
                      IF CommandClass(ans) = "expired" THEN nExpired[j] + 1 ELSE nExpired[j]]
    /\ IF ans.http = "exception" THEN Return(j, OnException(op[j]))
       ELSE IF CommandUnsuccessful(ans) /\ CommandRetry(ans, maxTokenRetries[j]) THEN Retry(j)
       ELSE IF CommandUnsuccessful(ans) THEN Return(j, ReturnNone)
       ELSE Return(j, CommandSuccessReturn)
    /\ UNCHANGED <<op, hdr, nReq, nRenewLogin>>
    /\ UNCHANGED <<coordVars, entityVars, now, vendorVars, configVars>>

----------------------------------------------------------------------------
(* SemsUpdateCoordinator._async_update_data *)

\* The poll fails with UpdateFailed: getData raised OutOfRetries, returned None,
\* or returned a reading without "sn".
UpdateFailed(r) == r.kind \in {"OutOfRetries", "None"} \/ r.reading.sn = NoSn

\* Variant in which the new reading is merged into the old dict.
MergedData(old, result) == (result.sn :> result) @@ old

\* The dict a successful poll returns and the host stores as coordinator.data.
NewData(old, result) == (result.sn :> result)

----------------------------------------------------------------------------
(* SemsSwitch *)

\* The state the reading reports.
ApiIsOn(r) == r.status = STATUS_CHARGING \/ r.power > 0

\* Variant with a turn-on window of under a minute.
WithinShortOnGrace(t, ts) == \E s \in ts : t - s < 60

\* "ts is not None and now - ts < GRACE_ON_SECONDS"
WithinOnGrace(t, ts) == \E s \in ts : t - s < GRACE_ON_SECONDS

\* Variant with a turn-off window of over three minutes.
WithinLongOffGrace(t, ts) == \E s \in ts : t - s < 200

\* "ts is not None and now - ts < GRACE_OFF_SECONDS"
WithinOffGrace(t, ts) == \E s \in ts : t - s < GRACE_OFF_SECONDS

HoldOn(target, ts, t, api) == target = Some(TRUE) /\ WithinOnGrace(t, ts) /\ ~api
HoldOff(target, ts, t, api) == target = Some(FALSE) /\ WithinOffGrace(t, ts) /\ api

\* The value _compute_is_on_from_data returns.
ComputeIsOn(target, ts, t, api) ==
    IF HoldOn(target, ts, t, api) THEN TRUE
    ELSE IF HoldOff(target, ts, t, api) THEN FALSE
    ELSE api

\* Variant in which the pending command is never forgotten.
NeverSettled(target, ts, t, api) == FALSE

\* _compute_is_on_from_data forgets the pending command.
CommandSettled(target, ts, t, api) ==
    /\ ~HoldOn(target, ts, t, api)
    /\ ~HoldOff(target, ts, t, api)
    /\ target # None
    /\ target = Some(api)

NoHist == [target |-> None, ts |-> 0, agreed |-> FALSE, last |-> "none",
           api_on |-> FALSE, at |-> 0]

\* SemsSwitch._handle_coordinator_update with coordinator.data = d; a missing
\* key raises KeyError and leaves the switch as it was.
SwitchUpdate(d) ==
    IF sw_sn \in DOMAIN d
    THEN LET api == ApiIsOn(d[sw_sn])
             settled == CommandSettled(last_command_target, last_command_ts, now, api)
         IN /\ attr_is_on' = ComputeIsOn(last_command_target, last_command_ts, now, api)
            /\ last_command_target' = IF settled THEN None ELSE last_command_target
            /\ last_command_ts' = IF settled THEN None ELSE last_command_ts
            /\ hist' = [hist EXCEPT !.last = "update", !.api_on = api, !.at = now,
                                    !.agreed = hist.agreed \/ hist.target = Some(api)]
            /\ UNCHANGED sw_sn
    ELSE UNCHANGED switchVars

\* SemsSwitch.__init__ from async_setup_entry, for the one key of coordinator.data.
SwitchCreate(d) ==
    LET sn == CHOOSE k \in DOMAIN d : TRUE
    IN /\ sw_sn' = sn
       /\ attr_is_on' = ApiIsOn(d[sn])
       /\ last_command_target' = None
       /\ last_command_ts' = None
       /\ hist' = NoHist

----------------------------------------------------------------------------
(* SemsNumber *)

\* Variant that takes a value that is not numeric for a number.
IsNumericOrText(p) == p \in PowerValues \cup {BadPower}

IsNumeric(p) == p \in PowerValues

\* SemsNumber._handle_coordinator_update with coordinator.data = d.
NumberUpdate(d) ==
    IF num_created /\ num_sn \in DOMAIN d
    THEN /\ native_value' = IF d[num_sn].set_charge_power # NoPower
                               /\ IsNumeric(d[num_sn].set_charge_power)
                            THEN Some(d[num_sn].set_charge_power)
                            ELSE native_value
         /\ UNCHANGED <<num_created, num_sn>>
    ELSE UNCHANGED numberVars

\* SemsNumber.__init__ from async_setup_entry; float() of a value that is not
\* numeric raises and no number entity is added.
NumberCreate(d) ==
    LET sn == CHOOSE k \in DOMAIN d : TRUE
        p == d[sn].set_charge_power
    IN /\ num_created' = (p = NoPower \/ IsNumeric(p))
       /\ num_sn' = IF p = NoPower \/ IsNumeric(p) THEN sn ELSE NoSn
       /\ native_value' = IF IsNumeric(p) THEN Some(p) ELSE None

\* Variant in which the mode of the reading is sent at every power.
NumberModeOfReading(value, d, sn) ==
    IF sn \in DOMAIN d /\ d[sn].chargeMode # NoMode THEN d[sn].chargeMode ELSE 0

\* The mode SemsNumber.async_set_native_value sends.
NumberMode(value, d, sn) ==
    IF value > FAST_THRESHOLD THEN 0
    ELSE IF sn \in DOMAIN d /\ d[sn].chargeMode # NoMode THEN d[sn].chargeMode
    ELSE 0

----------------------------------------------------------------------------
(* InverterOperationModeEntity (select) *)

MODE_TO_OPTION == (0 :> "Fast") @@ (1 :> "PV priority") @@ (2 :> "PV & battery")

OPTION_TO_MODE ==
    [o \in {MODE_TO_OPTION[m] : m \in DOMAIN MODE_TO_OPTION} |->
        CHOOSE m \in DOMAIN MODE_TO_OPTION : MODE_TO_OPTION[m] = o]

\* list(_MODE_TO_OPTION.values()), the entity's _attr_options.
SupportedOptions == {MODE_TO_OPTION[m] : m \in DOMAIN MODE_TO_OPTION}

\* Options a user or an automation may ask for.
RequestedOptions == SupportedOptions \cup {"Eco"}
NoOption == ""

\* str(_MODE_TO_OPTION.get(active_mode)): the option the entity is created
\* with; dict.get gives None for an unknown mode and str(None) is "None".
InitialOption(mode) ==
    IF mode \in DOMAIN MODE_TO_OPTION THEN MODE_TO_OPTION[mode] ELSE "None"

\* _handle_coordinator_update: the option after an update reporting mode.
OptionAfterUpdate(mode, old) ==
    IF mode \in DOMAIN MODE_TO_OPTION THEN MODE_TO_OPTION[mode] ELSE old

\* Variant of the update that keeps the charge power of the setup.
ChargePowerKept(reading, old) == old

\* _handle_coordinator_update: the charge power remembered after an update.
ChargePowerAfterUpdate(reading, old) == reading.max_charge_power

\* InverterOperationModeEntity.__init__ from async_setup_entry, for the one
\* key of coordinator.data; a reading without "chargeMode" raises KeyError
\* and no select entity is added.
SelectCreate(d) ==
    LET sn == CHOOSE k \in DOMAIN d : TRUE
    IN IF d[sn].chargeMode = NoMode
       THEN /\ sel_created' = FALSE
            /\ sel_sn' = NoSn
            /\ current_option' = NoOption
            /\ current_charge_power' = NoPower
       ELSE /\ sel_created' = TRUE
            /\ sel_sn' = sn
            /\ current_option' = InitialOption(d[sn].chargeMode)
            /\ current_charge_power' = d[sn].max_charge_power

\* InverterOperationModeEntity._handle_coordinator_update with
\* coordinator.data = d; a missing key raises KeyError and leaves the entity
\* as it was.
SelectUpdate(d) ==
    IF sel_created /\ sel_sn \in DOMAIN d /\ d[sel_sn].chargeMode # NoMode
    THEN /\ current_option' = OptionAfterUpdate(d[sel_sn].chargeMode, current_option)
         /\ current_charge_power' = ChargePowerAfterUpdate(d[sel_sn], current_charge_power)
         /\ UNCHANGED <<sel_created, sel_sn>>
    ELSE UNCHANGED <<sel_created, sel_sn, current_option, current_charge_power>>

\* Variant of async_select_option that shows whatever option was asked for.
OptionPublishedUnchecked(option, old) == option

\* async_select_option: the option shown after the call.
OptionAfterSelect(option, old) == IF option \in DOMAIN OPTION_TO_MODE THEN option ELSE old

----------------------------------------------------------------------------
(* Config entry and coordinator construction *)

DEFAULT_SCAN_INTERVAL == 60
ScanIntervals == {30, 90}            \* scan_interval values a user enters

USE_V4_STATUS == FALSE
NoFlow == [step |-> "none", token |-> NoToken, errors |-> "", scan |-> None, answer |-> ""]

NoEntry == [exists |-> FALSE, data_scan |-> None, options_scan |-> None]
\* An entry created without scan_interval and with no options saved.
PlainEntry == [exists |-> TRUE, data_scan |-> None, options_scan |-> None]

\* dict.get(key, default) for a key that is absent ({}) or present ({v}).
Get(field, default) == IF field = None THEN default ELSE CHOOSE v \in field : TRUE

\* Variant in which the value of the entry's data wins over the options.
DataBeforeOptions(options_scan, data_scan) ==
    Get(data_scan, Get(options_scan, DEFAULT_SCAN_INTERVAL))

\* SemsUpdateCoordinator.__init__: interval_seconds.
IntervalSeconds(options_scan, data_scan) ==
    Get(options_scan, Get(data_scan, DEFAULT_SCAN_INTERVAL))

----------------------------------------------------------------------------
(* Event-loop actions *)

\* async_setup_entry: a new SemsApi and coordinator, then the first refresh.
SetupEntry ==
    /\ entry.exists
    /\ ~loaded
    /\ pc["poll"] = "idle" /\ pc["cmd"] = "idle"
    /\ token' = NoToken
    /\ update_interval' = Some(IntervalSeconds(entry.options_scan, entry.data_scan))
    /\ Call("poll", "getData")
    /\ data' = EmptyDict
    /\ last_update' = NoPoll
    /\ UNCHANGED <<loaded, refresh_requested, entityVars, now>>
    /\ UNCHANGED <<vendorVars, use_v4, entry, flow>>

\* Variant that stores the runtime data and forwards the platforms whatever
\* the first refresh returned.
FirstRefreshUnchecked ==
    /\ ~loaded
    /\ pc["poll"] = "done"
    /\ Release("poll")
    /\ loaded' = TRUE
    /\ IF UpdateFailed(ret["poll"])
       THEN /\ last_update' = PollRecord("UpdateFailed")
            /\ UNCHANGED <<data, entityVars>>
       ELSE /\ last_update' = PollRecord("success")
            /\ data' = NewData(data, ret["poll"].reading)
            /\ SwitchCreate(data')
            /\ NumberCreate(data')
            /\ SelectCreate(data')
            /\ UNCHANGED <<cmd_args, selected>>
    /\ UNCHANGED <<token, refresh_requested, now>>
    /\ UNCHANGED <<vendorVars, configVars>>

\* The first refresh ends: on success the runtime data is stored and the
\* platforms create their entities; on failure the entry is not set up.
FirstRefreshDone ==
    /\ ~loaded
    /\ pc["poll"] = "done"
    /\ Release("poll")
    /\ IF UpdateFailed(ret["poll"])
       THEN /\ last_update' = PollRecord("UpdateFailed")
            /\ UNCHANGED <<loaded, data, entityVars>>
       ELSE /\ last_update' = PollRecord("success")
            /\ data' = NewData(data, ret["poll"].reading)
            /\ loaded' = TRUE
            /\ SwitchCreate(data')
            /\ NumberCreate(data')
            /\ SelectCreate(data')
            /\ UNCHANGED <<cmd_args, selected>>
    /\ UNCHANGED <<token, refresh_requested, now>>
    /\ UNCHANGED <<vendorVars, configVars>>

\* The update interval elapses or a requested refresh runs: the coordinator
\* hands getData(station id) to an executor job.
Refresh ==
    /\ loaded
    /\ pc["poll"] = "idle"
    /\ Call("poll", "getData")
    /\ refresh_requested' = FALSE
    /\ last_update' = PollStarted(last_update)
    /\ UNCHANGED <<token, loaded, data, entityVars, now>>
    /\ UNCHANGED <<vendorVars, configVars>>

\* A later poll ends: on success coordinator.data is replaced and the
\* listeners run; on failure the data stays.
RefreshDone ==
    /\ loaded
    /\ pc["poll"] = "done"
    /\ Release("poll")
    /\ IF UpdateFailed(ret["poll"])
       THEN /\ last_update' = PollRecord("UpdateFailed")
            /\ UNCHANGED <<data, entityVars>>
       ELSE /\ last_update' = PollRecord("success")
            /\ data' = NewData(data, ret["poll"].reading)
            /\ SwitchUpdate(data')
            /\ NumberUpdate(data')
            /\ SelectUpdate(data')
            /\ UNCHANGED <<cmd_args, selected>>
    /\ UNCHANGED <<token, loaded, refresh_requested, now>>
    /\ UNCHANGED <<vendorVars, configVars>>

\* Variant in which the switch state is left for the next update to set.
SwitchTurnUnpublished(b) ==
    /\ loaded
    /\ pc["cmd"] = "idle"
    /\ last_command_target' = Some(b)
    /\ last_command_ts' = Some(now)
    /\ hist' = [target |-> Some(b), ts |-> now, agreed |-> FALSE, last |-> "cmd",
                api_on |-> FALSE, at |-> now]
    /\ refresh_requested' = TRUE
    /\ Call("cmd", "change_status")
    /\ cmd_args' = [entity |-> "switch", sn |-> sw_sn, arg |-> IF b THEN 1 ELSE 2,
                    power |-> NoPower]
    /\ UNCHANGED <<token, loaded, data, last_update, sw_sn, attr_is_on, numberVars,
                   selectVars, now>>
    /\ UNCHANGED <<vendorVars, configVars>>

\* SemsSwitch.async_turn_on (b = TRUE) / async_turn_off (b = FALSE): record the
\* command, switch optimistically, schedule a refresh, hand change_status to
\* an executor job.
SwitchTurn(b) ==
    /\ loaded
    /\ pc["cmd"] = "idle"
    /\ last_command_target' = Some(b)
    /\ last_command_ts' = Some(now)
    /\ attr_is_on' = b
    /\ hist' = [target |-> Some(b), ts |-> now, agreed |-> FALSE, last |-> "cmd",
                api_on |-> FALSE, at |-> now]
    /\ refresh_requested' = TRUE
    /\ Call("cmd", "change_status")
    /\ cmd_args' = [entity |-> "switch", sn |-> sw_sn, arg |-> IF b THEN 1 ELSE 2,
                    power |-> NoPower]
    /\ UNCHANGED <<token, loaded, data, last_update, sw_sn, numberVars, selectVars, now>>
    /\ UNCHANGED <<vendorVars, configVars>>

async_turn_on == SwitchTurn(TRUE)
async_turn_off == SwitchTurn(FALSE)

\* Variant that requests the refresh before the command is handed over.
SetValueRefreshFirst(value) ==
    /\ loaded
    /\ num_created
    /\ pc["cmd"] = "idle"
    /\ native_value' = Some(value)
    /\ refresh_requested' = TRUE
    /\ Call("cmd", "set_charge_mode")
    /\ cmd_args' = [entity |-> "number", sn |-> num_sn,
                    arg |-> NumberMode(value, data, num_sn), power |-> value]
    /\ UNCHANGED <<token, loaded, data, last_update, switchVars, num_created, num_sn,
                   selectVars, now>>
    /\ UNCHANGED <<vendorVars, configVars>>

\* SemsNumber.async_set_native_value: set the value optimistically and hand
\* set_charge_mode to an executor job.
async_set_native_value(value) ==
    /\ loaded
    /\ num_created
    /\ pc["cmd"] = "idle"
    /\ native_value' = Some(value)
    /\ Call("cmd", "set_charge_mode")
    /\ cmd_args' = [entity |-> "number", sn |-> num_sn,
                    arg |-> NumberMode(value, data, num_sn), power |-> value]
    /\ UNCHANGED <<token, coordVars, switchVars, num_created, num_sn, selectVars, now>>
    /\ UNCHANGED <<vendorVars, configVars>>

\* The executor job of a command has returned to the entity; after
\* set_charge_mode the entity schedules a refresh.
CommandReturn ==
    /\ pc["cmd"] = "done"
    /\ Release("cmd")
    /\ refresh_requested' = (refresh_requested \/ op["cmd"] = "set_charge_mode")
    /\ cmd_args' = NoArgs
    /\ UNCHANGED <<token, loaded, data, last_update, switchVars, numberVars, selectVars,
                   now>>
    /\ UNCHANGED <<vendorVars, configVars>>

\* InverterOperationModeEntity.async_select_option: an unknown option is
\* logged and dropped; a known one is shown at once and set_charge_mode is
\* handed to an executor job with its mode and the remembered charge power.
async_select_option(option) ==
    /\ loaded
    /\ sel_created
    /\ selected' = option
    /\ current_option' = OptionAfterSelect(option, current_option)
    /\ IF option \in DOMAIN OPTION_TO_MODE
       THEN /\ pc["cmd"] = "idle"
            /\ Call("cmd", "set_charge_mode")
            /\ cmd_args' = [entity |-> "select", sn |-> sel_sn,
                            arg |-> OPTION_TO_MODE[option], power |-> current_charge_power]
       ELSE UNCHANGED <<pc, op, renewToken, maxTokenRetries, hdr, ret, nReq, nRenewLogin,
                        nAttemptLogin, nAttemptReq, nExpired, met, cmd_args>>
    /\ UNCHANGED <<token, coordVars, switchVars, numberVars, sel_created, sel_sn,
                   current_charge_power, now>>
    /\ UNCHANGED <<vendorVars, configVars>>

----------------------------------------------------------------------------
(* Config flow, options flow and unload *)

\* Variant of validate_input that accepts whatever test_authentication says.
ValidationPasses(authenticated) == ""

\* validate_input: the exception it raises, "" when it returns the data.
ValidationError(authenticated) == IF authenticated THEN "" ELSE "InvalidAuth"

\* ConfigFlow.async_step_user: errors["base"] for the exception caught.
FlowError(exc) ==
    CASE exc = "CannotConnect" -> "cannot_connect"
      [] exc = "InvalidAuth" -> "invalid_auth"
      [] OTHER -> "unknown"

\* scan_interval as submitted in the user form: left out or a positive int.
SubmittedScans == {None} \cup {Some(n) : n \in ScanIntervals}

\* async_step_user(None): the form is shown.
ShowForm ==
    /\ ~entry.exists
    /\ flow.step = "none"
    /\ flow' = [flow EXCEPT !.step = "form"]
    /\ UNCHANGED <<apiVars, coordVars, entityVars, now, vendorVars, use_v4, entry,
                   update_interval>>

\* async_step_user(user_input): validate_input builds a SemsApi of its own
\* and hands test_authentication to an executor job; _ensure_token(renew=True)
\* sends a login whatever the cache holds.
async_step_user(scan) ==
    /\ ~entry.exists
    /\ flow.step = "form"
    /\ NeedLogin(NoToken, TRUE)
    /\ flow' = [step |-> "login", token |-> NoToken, errors |-> "", scan |-> scan,
                answer |-> ""]
    /\ UNCHANGED <<apiVars, coordVars, entityVars, now, vendorVars, use_v4, entry,
                   update_interval>>

\* The login of test_authentication is answered: it returns whether a token
\* was obtained; validate_input raises InvalidAuth or returns, and the flow
\* shows the form with the error or creates the entry.
FlowLoginReply(ans) ==
    /\ flow.step = "login"
    /\ LET tok == TokenAfterLogin(ans, flow.token)
           exc == ValidationError(tok # NoToken)
       IN IF exc = ""
          THEN /\ flow' = [flow EXCEPT !.step = "created", !.token = tok, !.answer = ans]
               /\ entry' = [exists |-> TRUE, data_scan |-> flow.scan, options_scan |-> None]
          ELSE /\ flow' = [flow EXCEPT !.step = "form", !.token = tok, !.answer = ans,
                                       !.errors = FlowError(exc)]
               /\ UNCHANGED entry
    /\ UNCHANGED <<apiVars, coordVars, entityVars, now, vendorVars, use_v4, update_interval>>

\* async_unload_entry: the platforms unload their entities and the runtime
\* data is dropped.
UnloadEntry ==
    /\ loaded' = FALSE
    /\ data' = EmptyDict
    /\ last_update' = NoPoll
    /\ refresh_requested' = FALSE
    /\ sw_sn' = NoSn
    /\ attr_is_on' = FALSE
    /\ last_command_target' = None
    /\ last_command_ts' = None
    /\ hist' = NoHist
    /\ num_created' = FALSE
    /\ num_sn' = NoSn
    /\ native_value' = None
    /\ sel_created' = FALSE
    /\ sel_sn' = NoSn
    /\ current_option' = NoOption
    /\ current_charge_power' = NoPower
    /\ selected' = NoOption
    /\ cmd_args' = NoArgs

\* SemsWallboxOptionsFlowHandler.async_step_init(user_input): the options are
\* saved.  An entry that is set up has its update listener registered, which
\* reloads it: it is unloaded here (with no job running) and set up again by
\* SetupEntry.  An entry that is not set up has no listener yet.
async_step_init(scan) ==
    /\ entry.exists
    /\ entry.options_scan # Some(scan)
    /\ entry' = [entry EXCEPT !.options_scan = Some(scan)]
    /\ IF loaded
       THEN /\ pc["poll"] = "idle" /\ pc["cmd"] = "idle"
            /\ UnloadEntry
       ELSE UNCHANGED <<coordVars, entityVars>>
    /\ UNCHANGED <<apiVars, now, vendorVars, use_v4, update_interval, flow>>

\* Time passes.
Tick ==
    /\ now + TimeStep <= MaxTime
    /\ now' = now + TimeStep
    /\ UNCHANGED <<apiVars, coordVars, entityVars, vendorVars, configVars>>

----------------------------------------------------------------------------
(* Specifications *)

\* The state before the integration has run, whatever entry and build.
InitRuntime ==
    /\ token = NoToken
    /\ pc = [j \in Jobs |-> "idle"]
    /\ op = [j \in Jobs |-> IF j = "poll" THEN "getData" ELSE "change_status"]
    /\ renewToken = [j \in Jobs |-> FALSE]
    /\ maxTokenRetries = [j \in Jobs |-> DefaultMaxTokenRetries]
    /\ hdr = [j \in Jobs |-> NoToken]
    /\ ret = [j \in Jobs |-> Running]
    /\ nReq = [j \in Jobs |-> 0]
    /\ nRenewLogin = [j \in Jobs |-> 0]
    /\ nAttemptLogin = [j \in Jobs |-> 0]
    /\ nAttemptReq = [j \in Jobs |-> 0]
    /\ nExpired = [j \in Jobs |-> 0]
    /\ met = [j \in Jobs |-> "none"]
    /\ loaded = FALSE
    /\ data = EmptyDict
    /\ last_update = NoPoll
    /\ refresh_requested = FALSE
    /\ sw_sn = NoSn
    /\ attr_is_on = FALSE
    /\ last_command_target = None
    /\ last_command_ts = None
    /\ hist = NoHist
    /\ num_created = FALSE
    /\ num_sn = NoSn
    /\ native_value = None
    /\ cmd_args = NoArgs
    /\ now = 0
    /\ sel_created = FALSE
    /\ sel_sn = NoSn
    /\ current_option = NoOption
    /\ current_charge_power = NoPower
    /\ selected = NoOption
    /\ stale = {}
    /\ recovered = FALSE
    /\ update_interval = None
    /\ flow = NoFlow

\* The build as shipped, with a config entry that was created without
\* scan_interval.
Init ==
    /\ InitRuntime
    /\ use_v4 = USE_V4_STATUS
    /\ entry = PlainEntry

\* The steps of the two executor jobs, the vendor answering from the given sets.
JobStep(LA, SA, CA) ==
    \/ \E j \in Jobs : EnsureToken(j)
    \/ \E j \in Jobs, ans \in LA : LoginReply(j, ans)
    \/ \E j \in Jobs : BuildHeaders(j)
    \/ \E j \in Jobs, ans \in LA : BuildLoginReply(j, ans)
    \/ \E j \in Jobs : SendRequest(j)
    \/ \E ans \in SA : GetDataReply("poll", ans)
    \/ \E ans \in CA : CommandReply("cmd", ans)

\* Readings the vendor serves in Spec: the polled wallbox, another wallbox,
\* and a reading without serial number.
SpecReadings ==
    {Reading("SN1", STATUS_CHARGING, 7, 0, 70),
     Reading("SN2", STATUS_WAITING, 0, 0, 70),
     Reading(NoSn, STATUS_WAITING, 0, 0, 70)}

\* Spec: the client and the coordinator against a vendor that may answer
\* anything, while the number entity sends commands; the clock stands.
Next ==
    \/ JobStep(LoginAnswers, StatusAnswers(SpecReadings), CommandAnswers)
    \/ SetupEntry
    \/ FirstRefreshDone
    \/ Refresh
    \/ RefreshDone
    \/ async_set_native_value(70)
    \/ CommandReturn

Spec == Init /\ [][Next]_vars

\* SpecCommand: the commands of the switch and the number entity against a
\* vendor that may answer logins and commands with anything and serves every
\* status request; the clock stands.
CommandReadings ==
    {Reading("SN1", STATUS_CHARGING, 7, NoMode, 70),
     Reading("SN1", STATUS_WAITING, 0, 1, 70)}
ServedStatusAnswers(R) ==
    {a \in StatusAnswers(R) : a.http = "ok" /\ a.has_data /\ ~a.expired}

NextCommand ==
    \/ JobStep(LoginAnswers, ServedStatusAnswers(CommandReadings), CommandAnswers)
    \/ SetupEntry
    \/ FirstRefreshDone
    \/ Refresh
    \/ RefreshDone
    \/ async_turn_on
    \/ async_turn_off
    \/ \E v \in PowerValues : async_set_native_value(v)
    \/ CommandReturn

SpecCommand == Init /\ [][NextCommand]_vars

\* SpecSwitch: the switch over time against a vendor that accepts every login,
\* serves every status request with a reading of the polled wallbox, charging
\* or not, and accepts a command or answers it 'authorization has expired'.
SwitchReadings ==
    {Reading("SN1", STATUS_CHARGING, 0, 0, 70),
     Reading("SN1", STATUS_WAITING, 7, 0, 70),
     Reading("SN1", STATUS_WAITING, 0, 0, 70)}
SwitchCommandAnswers ==
    {a \in CommandAnswers : a.http = "200" /\ a.is_dict /\ ~a.has_error
                            /\ (a.expired <=> a.data_none)}

NextSwitch ==
    \/ JobStep({"ok"}, ServedStatusAnswers(SwitchReadings), SwitchCommandAnswers)
    \/ SetupEntry
    \/ FirstRefreshDone
    \/ Refresh
    \/ RefreshDone
    \/ async_turn_on
    \/ async_turn_off
    \/ CommandReturn
    \/ Tick

SpecSwitch == Init /\ [][NextSwitch]_vars

\* SpecRecover: a vendor that answers by the token it is sent: a token it
\* issued and has not dropped gets the reading or has the command accepted,
\* any other gets 'authorization has expired'.  Until it has recovered it may
\* also fail logins and requests and drop the tokens it issued; after that it
\* accepts every login and keeps every token.
RecoverReadings == {Reading("SN1", STATUS_CHARGING, 7, 0, 70)}

Accepted(t) == t # NoToken /\ t \notin stale

RecoverLoginAnswers == IF recovered THEN {"ok"} ELSE {"ok", "exception"}

RecoverStatusAnswers ==
    {a \in StatusAnswers(RecoverReadings) :
        \/ ~recovered /\ a.http = "exception"
        \/ a.http = "ok" /\ Accepted(hdr["poll"]) /\ a.has_data /\ ~a.expired
        \/ a.http = "ok" /\ ~Accepted(hdr["poll"]) /\ ~a.has_data /\ a.expired}

RecoverCommandAnswers ==
    {a \in CommandAnswers :
        \/ ~recovered /\ a.http = "exception"
        \/ a.http = "200" /\ a.is_dict /\ ~a.has_error /\ Accepted(hdr["cmd"])
              /\ ~a.data_none /\ ~a.expired
        \/ a.http = "200" /\ a.is_dict /\ ~a.has_error /\ ~Accepted(hdr["cmd"])
              /\ a.data_none /\ a.expired}

\* The vendor drops every token the client holds.
ExpireTokens ==
    /\ ~recovered
    /\ stale' = ({token} \cup {hdr[j] : j \in Jobs}) \ {NoToken}
    /\ stale' # stale
    /\ UNCHANGED <<apiVars, coordVars, entityVars, now, recovered, configVars>>

\* The vendor has recovered; the next poll starts after this.
Recover ==
    /\ ~recovered
    /\ pc["poll"] = "idle"
    /\ recovered' = TRUE
    /\ UNCHANGED <<apiVars, coordVars, entityVars, now, stale, configVars>>

\* The replies of this vendor.
RecoverLoginReply(j, ans) == ans \in RecoverLoginAnswers /\ LoginReply(j, ans)
RecoverBuildLoginReply(j, ans) == ans \in RecoverLoginAnswers /\ BuildLoginReply(j, ans)
RecoverGetDataReply(ans) == ans \in RecoverStatusAnswers /\ GetDataReply("poll", ans)
RecoverCommandReply(ans) == ans \in RecoverCommandAnswers /\ CommandReply("cmd", ans)

NextRecover ==
    \/ \E j \in Jobs : EnsureToken(j)
    \/ \E j \in Jobs, ans \in LoginAnswers : RecoverLoginReply(j, ans)
    \/ \E j \in Jobs : BuildHeaders(j)
    \/ \E j \in Jobs, ans \in LoginAnswers : RecoverBuildLoginReply(j, ans)
    \/ \E j \in Jobs : SendRequest(j)
    \/ \E ans \in StatusAnswers(RecoverReadings) : RecoverGetDataReply(ans)
    \/ \E ans \in CommandAnswers : RecoverCommandReply(ans)
    \/ SetupEntry
    \/ FirstRefreshDone
    \/ Refresh
    \/ RefreshDone
    \/ async_turn_on
    \/ CommandReturn
    \/ ExpireTokens
    \/ Recover

SpecRecover == Init /\ [][NextRecover]_vars

\* SpecSelect: the number and the select entity against a vendor that
\* accepts every login, serves every status request with a reading of the
\* polled wallbox, its chargeMode inside or outside 0..2 and its
\* set_charge_power numeric, null or not numeric, and accepts a command or
\* answers it 'authorization has expired'; the clock stands.
SelectReadings ==
    {ReadingOf("SN1", STATUS_WAITING, 0, 0, 70, 110),
     ReadingOf("SN1", STATUS_WAITING, 0, 1, NoPower, 70),
     ReadingOf("SN1", STATUS_WAITING, 0, 5, BadPower, 70)}

NextSelect ==
    \/ JobStep({"ok"}, ServedStatusAnswers(SelectReadings), SwitchCommandAnswers)
    \/ SetupEntry
    \/ FirstRefreshDone
    \/ Refresh
    \/ RefreshDone
    \/ async_set_native_value(42)
    \/ \E o \in RequestedOptions : async_select_option(o)
    \/ CommandReturn

SpecSelect == Init /\ [][NextSelect]_vars

\* SpecV4: the build with the v4 status endpoint switched on, polling against
\* a vendor that may answer anything on either endpoint; no commands.
InitV4 ==
    /\ InitRuntime
    /\ use_v4 = TRUE
    /\ entry = PlainEntry

V4Readings == {Reading("SN1", STATUS_CHARGING, 7, 0, 70)}

NextV4 ==
    \/ EnsureToken("poll")
    \/ \E ans \in LoginAnswers : LoginReply("poll", ans)
    \/ BuildHeaders("poll")
    \/ SendRequest("poll")
    \/ \E ans \in V4StatusAnswers(V4Readings) : V4Reply("poll", ans)
    \/ \E ans \in V4StatusAnswers(V4Readings) : V3AfterNotFoundReply("poll", ans)
    \/ \E ans \in V4StatusAnswers(V4Readings) : V3AfterNoDataReply("poll", ans)
    \/ SetupEntry
    \/ FirstRefreshDone
    \/ Refresh
    \/ RefreshDone

SpecV4 == InitV4 /\ [][NextV4]_vars

\* SpecFlow: from the config flow to the running entry: the user submits the
\* form with or without scan_interval, the vendor answers the login of the
\* flow with anything, the entry is set up and polled against a vendor that
\* may fail logins and requests, and the options are saved before, during
\* and after the setup; no commands.
InitFlow ==
    /\ InitRuntime
    /\ use_v4 = USE_V4_STATUS
    /\ entry = NoEntry

FlowReadings == {Reading("SN1", STATUS_CHARGING, 7, 0, 70)}

NextFlow ==
    \/ ShowForm
    \/ \E scan \in SubmittedScans : async_step_user(scan)
    \/ \E ans \in LoginAnswers : FlowLoginReply(ans)
    \/ \E n \in ScanIntervals : async_step_init(n)
    \/ SetupEntry
    \/ FirstRefreshDone
    \/ Refresh
    \/ RefreshDone
    \/ EnsureToken("poll")
    \/ \E ans \in {"ok", "exception"} : LoginReply("poll", ans)
    \/ BuildHeaders("poll")
    \/ SendRequest("poll")
    \/ \E ans \in StatusAnswers(FlowReadings) : GetDataReply("poll", ans)

SpecFlow == InitFlow /\ [][NextFlow]_vars

----------------------------------------------------------------------------
(* Properties *)

\* Answers that are an error other than an expired authorization.
PollErrors == {"network", "http", "login_failed", "no_data"}
CommandErrors == {"network", "http", "login_failed", "vendor_error", "expired"}

\* C1: within one poll an expired-authorization answer triggers exactly one
\* re-login and one retry: the poll sends at most two status requests and at
\* most one login caused by expiry; a poll that met an expiry has logged in
\* again once and, unless a login then failed, has sent its second request.
C1_OneReloginAndRetry ==
    /\ nReq["poll"] <= 2
    /\ nRenewLogin["poll"] <= 1
    /\ (pc["poll"] = "done" /\ nExpired["poll"] >= 1)
         => /\ nRenewLogin["poll"] = 1
            /\ nReq["poll"] = 2 \/ met["poll"] = "login_failed"

\* A poll that was answered 'expired' once, logged in again, repeated the
\* request and got its reading.
C1_Witness ==
    /\ pc["poll"] = "done"
    /\ nExpired["poll"] = 1
    /\ nRenewLogin["poll"] = 1
    /\ nReq["poll"] = 2
    /\ ret["poll"].kind = "data"

\* C2: when the retried request is answered 'expired' as well, getData raises
\* OutOfRetries instead of returning None, and the coordinator ends the poll
\* with UpdateFailed.
C2_SecondExpiryRaises ==
    /\ nExpired["poll"] <= 2
    /\ (pc["poll"] = "done" /\ nExpired["poll"] = 2) => ret["poll"].kind = "OutOfRetries"
    /\ last_update.expired = 2
         => last_update.kind = "OutOfRetries" /\ last_update.outcome = "UpdateFailed"

\* A finished poll that met two expiry answers and failed the update.
C2_Witness ==
    /\ last_update.expired = 2
    /\ last_update.kind = "OutOfRetries"
    /\ last_update.outcome = "UpdateFailed"

\* C3: a network exception, an HTTP error, a failed login, an answer without
\* data whose message is not the expiry message, and a reading without serial
\* number all end the poll with UpdateFailed, and none of them is retried:
\* the call has ended in the step that received the answer.
C3_ErrorsFailThePoll ==
    /\ met["poll"] \in PollErrors
         => pc["poll"] = "done" /\ ret["poll"].kind \in {"None", "OutOfRetries"}
    /\ last_update.met \in PollErrors => last_update.outcome = "UpdateFailed"
    /\ (last_update.kind = "data" /\ last_update.reading.sn = NoSn)
         => last_update.outcome = "UpdateFailed"

\* A poll whose only request was answered without data and without the expiry
\* message has ended with None.
C3_Witness ==
    /\ pc["poll"] = "done"
    /\ met["poll"] = "no_data"
    /\ nReq["poll"] = 1
    /\ nExpired["poll"] = 0
    /\ ret["poll"].kind = "None"

\* C4: a command that met a network error, a failed login, a non-200 response,
\* a vendor error in the body or a second expiry ends in a way its caller can
\* tell from success.
C4_CommandFailureDistinct ==
    (pc["cmd"] = "done" /\ met["cmd"] \in CommandErrors) => ret["cmd"] # CommandSuccessReturn

\* C5: a command answered 'expired' logs in again and is retried once: it
\* sends at most two command requests and at most one login caused by expiry,
\* and a second expiry ends it.
C5_CommandRetriesOnce ==
    /\ nReq["cmd"] <= 2
    /\ nRenewLogin["cmd"] <= 1
    /\ nExpired["cmd"] <= 2
    /\ (pc["cmd"] = "done" /\ nExpired["cmd"] >= 1)
         => /\ nRenewLogin["cmd"] = 1
            /\ nReq["cmd"] = 2 \/ met["cmd"] = "login_failed"
    /\ (nExpired["cmd"] = 2 /\ met["cmd"] = "expired") => pc["cmd"] = "done"

\* A command that was answered 'expired' once, logged in again, was sent a
\* second time and accepted.
C5_Witness ==
    /\ pc["cmd"] = "done"
    /\ op["cmd"] = "change_status"
    /\ nExpired["cmd"] = 1
    /\ nRenewLogin["cmd"] = 1
    /\ nReq["cmd"] = 2
    /\ met["cmd"] = "none"

\* C6: at most one HTTP request is in flight: a poll and a command never
\* overlap.
C6_OneRequestInFlight == ~(InFlight("poll") /\ InFlight("cmd"))

\* C7: every status or command request carries a token that is not null.
C7_TokenNeverNull == \A j \in Jobs : pc[j] = "post" => hdr[j] # NoToken

\* C8: after every successful poll coordinator.data holds exactly one reading,
\* keyed by the serial number the reading itself carries, and nothing of the
\* dict it replaced.
C8_OneReadingUnderItsSerial ==
    /\ loaded => /\ Cardinality(DOMAIN data) = 1
                 /\ \A k \in DOMAIN data : data[k].sn = k
    /\ (last_update.outcome = "success" /\ last_update.kind = "data")
         => data = (last_update.reading.sn :> last_update.reading)

\* A later poll returned the reading of another wallbox than the one the
\* entities were created for: the dict holds that reading alone.
C8_Witness ==
    /\ loaded
    /\ sw_sn = "SN1"
    /\ last_update.outcome = "success"
    /\ last_update.kind = "data"
    /\ last_update.reading.sn = "SN2"
    /\ DOMAIN data = {"SN2"}

\* C9: the token is cached and a login is sent only when there is no token or
\* a renewal is asked for; one attempt of an operation never logs in twice.
C9_OneLoginPerAttempt == \A j \in Jobs : nAttemptLogin[j] <= 1

\* C10 as stated: for 130 seconds after a turn-on or turn-off command of the
\* switch, an update whose reading contradicts the command is ignored.
C10_GraceHoldsCommand ==
    (/\ hist.last = "update"
     /\ hist.target # None
     /\ hist.target # Some(hist.api_on)
     /\ hist.at - hist.ts < (IF hist.target = Some(TRUE) THEN GRACE_ON_SECONDS
                             ELSE GRACE_OFF_SECONDS))
      => attr_is_on = (hist.target = Some(TRUE))

\* C10: for 130 seconds after the most recent turn-on or turn-off command, an
\* update whose reading contradicts the command is ignored, as long as no
\* update since that command has delivered a reading that agrees with it.
C10_GraceHoldsUntilAgreed ==
    (/\ hist.last = "update"
     /\ hist.target # None
     /\ ~hist.agreed
     /\ hist.target # Some(hist.api_on)
     /\ hist.at - hist.ts < (IF hist.target = Some(TRUE) THEN GRACE_ON_SECONDS
                             ELSE GRACE_OFF_SECONDS))
      => attr_is_on = (hist.target = Some(TRUE))

\* One time step after turn-on an update reports the wallbox not charging and
\* the switch stays on.
C10_Witness ==
    /\ hist.last = "update"
    /\ hist.target = Some(TRUE)
    /\ ~hist.agreed
    /\ ~hist.api_on
    /\ hist.at - hist.ts = TimeStep
    /\ attr_is_on

\* The state the reading stored for the switch reports: its status is
\* Charging or its power is above 0.
StoredReadingIsOn ==
    \/ data[sw_sn].status = "EVDetail_Status_Title_Charging"
    \/ data[sw_sn].power > 0

\* C11: after an update processed at least 130 seconds after the most recent
\* switch command, or with no command ever issued, the switch is on exactly
\* when the reading's status is Charging or its power is above 0; after any
\* update the switch state is that value or the target of the most recent
\* command.
C11_SwitchReconciled ==
    hist.last = "update" =>
        /\ sw_sn \in DOMAIN data
        /\ (hist.target = None \/ hist.at - hist.ts >= 130)
             => attr_is_on = StoredReadingIsOn
        /\ \/ attr_is_on = StoredReadingIsOn
           \/ hist.target = Some(attr_is_on)

\* An update 130 seconds or more after turn-off, with no agreeing reading in
\* between, reports power above 0 while waiting: the switch goes on.
C11_Witness ==
    /\ hist.last = "update"
    /\ hist.target = Some(FALSE)
    /\ ~hist.agreed
    /\ hist.at - hist.ts >= 130
    /\ data[sw_sn].status = STATUS_WAITING
    /\ data[sw_sn].power > 0
    /\ attr_is_on

\* C12: once an update has delivered a reading that agrees with the target of
\* the last switch command, target and timestamp are cleared together, and
\* every later update sets the switch to the state the reading reports, also
\* within 130 seconds of that command and against it.
C12_AgreedCommandForgotten ==
    /\ (last_command_target = None) <=> (last_command_ts = None)
    /\ hist.agreed => last_command_target = None /\ last_command_ts = None
    /\ (hist.last = "update" /\ hist.agreed) => attr_is_on = hist.api_on

\* After turn-on one update agreed, and a later one within the 130 seconds
\* reports the wallbox not charging: the switch is off.
C12_Witness ==
    /\ hist.last = "update"
    /\ hist.agreed
    /\ hist.target = Some(TRUE)
    /\ hist.at - hist.ts < GRACE_ON_SECONDS
    /\ hist.at > hist.ts
    /\ ~hist.api_on
    /\ ~attr_is_on

\* C13: async_turn_on / async_turn_off record the command target and time,
\* set the switch state to the commanded value and request a refresh without
\* waiting for it, all before change_status is handed over with status 1
\* (start) or 2 (stop); no vendor request of the command has been sent at that
\* point, and every vendor request of the command is sent with the command on
\* record.
C13_StateBeforeRequest ==
    [][/\ (pc["cmd"] = "idle" /\ pc'["cmd"] # "idle" /\ op'["cmd"] = "change_status")
            => /\ cmd_args'.arg \in {1, 2}
               /\ cmd_args'.sn = sw_sn
               /\ last_command_target' = Some(cmd_args'.arg = 1)
               /\ last_command_ts' = Some(now)
               /\ attr_is_on' = (cmd_args'.arg = 1)
               /\ refresh_requested'
               /\ pc'["poll"] = pc["poll"]
               /\ pc'["cmd"] = "ensure"
               /\ nReq'["cmd"] = 0
               /\ nAttemptLogin'["cmd"] = 0
       /\ (op["cmd"] = "change_status" /\ pc["cmd"] # "idle"
           /\ pc'["cmd"] \in {"login", "login_b", "post"} /\ pc'["cmd"] # pc["cmd"])
            => /\ hist.target = Some(cmd_args.arg = 1)
               /\ hist.ts <= now
      ]_vars

\* The start request of turn-on is in flight, the switch is already on and
\* the refresh the command requested has not started yet.
C13_Witness ==
    /\ pc["cmd"] = "post"
    /\ op["cmd"] = "change_status"
    /\ cmd_args.arg = 1
    /\ nReq["cmd"] = 1
    /\ last_command_target = Some(TRUE)
    /\ attr_is_on
    /\ refresh_requested
    /\ pc["poll"] = "idle"

\* C14: the request retried after an 'authorization has expired' answer is
\* sent with the token a new, successful login returned: it never goes out
\* without a token.
C14_RetryCarriesNewToken ==
    \A j \in Jobs : (pc[j] = "post" /\ nExpired[j] >= 1) => hdr[j] # NoToken

\* C15: once the vendor accepts logins, serves accepted tokens and answers
\* every other token 'authorization has expired', the next poll returns a
\* reading, whatever the earlier polls and commands left behind.
C15_NextPollReturnsReading ==
    (recovered /\ pc["poll"] = "done") => ret["poll"].kind = "data"

\* C16: when a login fails, for whatever reason, no token is cached afterwards,
\* also when one was cached before; when a login succeeds the cached token is
\* the new one it returned; an operation that finds no cached token sends a
\* login.
C16_LoginSetsCache ==
    [][\A j \in Jobs :
         /\ (pc[j] \in {"login", "login_b"} /\ pc'[j] # pc[j])
              => /\ met'[j] \in {"login_failed", "none"}
                 /\ met'[j] = "login_failed" => token' = NoToken
                 /\ met'[j] = "none"
                      => /\ token' # NoToken
                         /\ token' \notin ({token} \cup {hdr[k] : k \in Jobs})
         /\ (pc[j] = "ensure" /\ pc'[j] # "ensure" /\ token = NoToken)
              => pc'[j] = "login"
      ]_vars

\* The login forced after an expiry answer has failed: the poll has ended and
\* the cache is empty.
C16_Witness ==
    /\ pc["poll"] = "done"
    /\ renewToken["poll"]
    /\ nExpired["poll"] = 1
    /\ met["poll"] = "login_failed"
    /\ token = NoToken

\* C17: a status fetch that fails with a network exception or an HTTP error,
\* or that gets no data with a message other than 'authorization has expired',
\* neither clears nor renews the cached token: when the fetch has failed the
\* cached token is the token that was sent in the request.
C17_FailedFetchKeepsToken ==
    [][(pc["poll"] = "post" /\ pc'["poll"] = "done"
        /\ met'["poll"] \in {"network", "http", "no_data"})
         => token' = token /\ token' = hdr["poll"]
      ]_vars

\* C18: change_status and set_charge_mode never raise to their caller: after
\* a failed login, a network exception, a non-200 response, a second expiry
\* and an OutOfRetries raised inside them they return None.
C18_CommandsReturnNone ==
    /\ pc["cmd"] = "done" => ret["cmd"].kind = "None"
    /\ pc["cmd"] # "done" => ret["cmd"].kind = "running"

\* _build_headers of a command could not log in and raised OutOfRetries; the
\* command has returned None.
C18_Witness ==
    /\ pc["cmd"] = "done"
    /\ nAttemptLogin["cmd"] = 2
    /\ met["cmd"] = "login_failed"
    /\ ret["cmd"] = ReturnNone

\* C19: the reading a successful poll stores is stored under the serial number
\* that was polled, the configured station id, so the switch and the number
\* entity created at setup find a reading under their own serial number after
\* every later successful poll.
C19_StoredUnderPolledSerial ==
    loaded => /\ DOMAIN data = {STATION_ID}
              /\ sw_sn \in DOMAIN data
              /\ num_created => num_sn \in DOMAIN data

\* C20: setting the target power through the number entity hands over one
\* set_charge_mode command for its wallbox whose charge power is the chosen
\* value and whose mode is 0 (Fast) when the value is above 4.2 kW and
\* otherwise the chargeMode of the latest stored reading, 0 when the reading
\* has none; the arguments stay the same for every request of the command.
C20_PowerCommand ==
    [][/\ (pc["cmd"] = "idle" /\ pc'["cmd"] # "idle" /\ op'["cmd"] = "set_charge_mode")
            => /\ cmd_args'.sn = num_sn
               /\ cmd_args'.power \in PowerValues
               /\ native_value' = Some(cmd_args'.power)
               /\ cmd_args'.arg =
                    IF cmd_args'.power > 42 THEN 0
                    ELSE IF num_sn \notin DOMAIN data THEN 0
                    ELSE IF data[num_sn].chargeMode = NoMode THEN 0
                    ELSE data[num_sn].chargeMode
               /\ nReq'["cmd"] = 0
       /\ (op["cmd"] = "set_charge_mode" /\ pc["cmd"] \notin {"idle", "done"})
            => cmd_args' = cmd_args
      ]_vars

\* A power of 4.2 kW was set while the stored reading has chargeMode 1: the
\* request in flight asks for mode 1 and 4.2 kW.
C20_Witness ==
    /\ pc["cmd"] = "post"
    /\ op["cmd"] = "set_charge_mode"
    /\ nReq["cmd"] = 1
    /\ cmd_args.power = 42
    /\ cmd_args.arg = 1
    /\ native_value = Some(42)

\* C21: every update the number entity processes sets its value to the
\* reading's set_charge_power when that is present and numeric, also over a
\* value set optimistically just before and with its command still running,
\* and leaves the value alone when the field is null or not numeric.
C21_UpdateSetsNumber ==
    [][(loaded /\ num_created /\ pc["poll"] = "done" /\ pc'["poll"] = "idle"
        /\ last_update'.outcome = "success")
         => /\ num_sn \in DOMAIN data'
            /\ data'[num_sn].set_charge_power \in {42, 70}
                 => native_value' = Some(data'[num_sn].set_charge_power)
            /\ data'[num_sn].set_charge_power \in {NoPower, BadPower}
                 => native_value' = native_value
      ]_vars

\* 4.2 kW was set through the number entity and its command is still in
\* flight; an update reporting 7.0 kW has replaced the optimistic value.
C21_Witness ==
    /\ pc["cmd"] = "post"
    /\ op["cmd"] = "set_charge_mode"
    /\ cmd_args.power = 42
    /\ data[num_sn].set_charge_power = 70
    /\ native_value = Some(70)

\* C22: a change through the number or the select entity first publishes the
\* new value, then hands over set_charge_mode, and requests the refresh only
\* when that call has returned: the step that starts the command shows the
\* new value, has sent nothing yet and requests no refresh, and a refresh
\* becomes requested only in the step in which the command call returns.
C22_RefreshAfterCommand ==
    [][/\ (pc["cmd"] = "idle" /\ pc'["cmd"] # "idle" /\ op'["cmd"] = "set_charge_mode")
            => /\ cmd_args'.entity \in {"number", "select"}
               /\ cmd_args'.entity = "number" => native_value' = Some(cmd_args'.power)
               /\ cmd_args'.entity = "select"
                    => /\ current_option' \in DOMAIN OPTION_TO_MODE
                       /\ cmd_args'.arg = OPTION_TO_MODE[current_option']
               /\ pc'["cmd"] = "ensure"
               /\ nReq'["cmd"] = 0
               /\ refresh_requested' = refresh_requested
       /\ (~refresh_requested /\ refresh_requested')
            => /\ pc["cmd"] = "done"
               /\ pc'["cmd"] = "idle"
               /\ op["cmd"] = "set_charge_mode"
      ]_vars

\* A select change is shown, its command has been sent and answered, the call
\* has not returned to the entity yet and no refresh is requested.
C22_Witness ==
    /\ pc["cmd"] = "done"
    /\ op["cmd"] = "set_charge_mode"
    /\ nReq["cmd"] = 1
    /\ cmd_args.entity = "select"
    /\ selected = "PV & battery"
    /\ current_option = "PV & battery"
    /\ cmd_args.arg = 2
    /\ ~refresh_requested

\* C23: selecting a supported charge mode hands over one set_charge_mode
\* command for the entity's wallbox with the mode code of the option (Fast 0,
\* PV priority 1, PV & battery 2) and with the max_charge_power of the reading
\* the most recent successful poll stored (the reading of the setup when no
\* later poll has succeeded); the arguments stay the same while the command
\* runs.
C23_SelectCommand ==
    [][/\ (pc["cmd"] = "idle" /\ pc'["cmd"] # "idle" /\ cmd_args'.entity = "select")
            => /\ op'["cmd"] = "set_charge_mode"
               /\ selected' \in {"Fast", "PV priority", "PV & battery"}
               /\ current_option' = selected'
               /\ cmd_args'.sn = sel_sn
               /\ cmd_args'.arg = (CASE selected' = "Fast" -> 0
                                     [] selected' = "PV priority" -> 1
                                     [] selected' = "PV & battery" -> 2
                                     [] OTHER -> -1)
               /\ sel_sn \in DOMAIN data
               /\ cmd_args'.power = data[sel_sn].max_charge_power
               /\ nReq'["cmd"] = 0
       /\ (cmd_args.entity = "select" /\ pc["cmd"] \notin {"idle", "done"})
            => cmd_args' = cmd_args
      ]_vars

\* The entity was set up from a reading with 11 kW; a later poll stored 7 kW;
\* PV & battery was selected and the request in flight asks for mode 2 with
\* 7 kW.
C23_Witness ==
    /\ pc["cmd"] = "post"
    /\ op["cmd"] = "set_charge_mode"
    /\ nReq["cmd"] = 1
    /\ selected = "PV & battery"
    /\ cmd_args.entity = "select"
    /\ cmd_args.sn = sel_sn
    /\ cmd_args.arg = 2
    /\ cmd_args.power = 70
    /\ data[sel_sn].max_charge_power = 70

\* C24: asking the select entity for an option that is not one of the three
\* supported charge modes changes nothing: the current option, the remembered
\* charge power, the client and its jobs, the command arguments and the
\* coordinator with its refresh flag are all as before.
C24_UnknownOptionIgnored ==
    [][(selected' # selected /\ selected' \notin {"Fast", "PV priority", "PV & battery"})
         => /\ current_option' = current_option
            /\ current_charge_power' = current_charge_power
            /\ cmd_args' = cmd_args
            /\ UNCHANGED apiVars
            /\ UNCHANGED coordVars
      ]_vars

\* "Eco" was asked for while PV priority was shown: PV priority is still
\* shown, no command runs and no refresh is requested.
C24_Witness ==
    /\ selected = "Eco"
    /\ current_option = "PV priority"
    /\ pc["cmd"] = "idle"
    /\ op["cmd"] = "change_status"
    /\ ~refresh_requested

\* C25: whenever the select entity exists its current option is one of Fast,
\* PV priority and PV & battery, whatever chargeMode the vendor reported in
\* the reading of the setup or in a later update.
C25_OptionSupported ==
    sel_created => current_option \in {"Fast", "PV priority", "PV & battery"}

\* C26: with the v4 status endpoint in use, one attempt of a status fetch
\* falls back to the v3 endpoint at most once: it sends at most two status
\* requests.
C26_AtMostOneFallback == nAttemptReq["poll"] <= 2

\* C27: entities exist only in an entry that is set up, and an entry is set
\* up only with a reading in the coordinator: while the first refresh has not
\* succeeded there is no runtime data, no entity and no reading, a failed
\* first refresh included; once the entry is set up the coordinator holds a
\* reading under the serial number the switch was created for at setup or
\* under the serial number of a later reading.
C27_EntitiesAfterFirstPoll ==
    /\ ~loaded => /\ sw_sn = NoSn
                  /\ ~num_created
                  /\ ~sel_created
                  /\ data = EmptyDict
                  /\ last_update.outcome # "success"
    /\ loaded => /\ DOMAIN data # {}
                 /\ NoSn \notin DOMAIN data
                 /\ sw_sn # NoSn
                 /\ num_created => num_sn = sw_sn
                 /\ sel_created => sel_sn = sw_sn
                 /\ last_update.outcome # "none"

\* The first refresh has failed: the entry is not set up and nothing was
\* created.
C27_Witness ==
    /\ ~loaded
    /\ pc["poll"] = "idle"
    /\ last_update.outcome = "UpdateFailed"
    /\ data = EmptyDict
    /\ sw_sn = NoSn
    /\ ~num_created
    /\ ~sel_created

\* C28: the config flow creates an entry exactly when the login it sends for
\* the submitted credentials succeeds; every failed login, a network failure
\* included, shows the form again with the error invalid_auth and creates no
\* entry; every submission sends a login.
C28_EntryIffLogin ==
    [][/\ (flow.step = "login" /\ flow'.step # "login")
            => /\ entry'.exists <=> flow'.answer = "ok"
               /\ flow'.answer = "ok"
                    => /\ flow'.step = "created"
                       /\ entry'.data_scan = flow.scan
               /\ flow'.answer \in {"has_error", "bad_code", "http_error", "exception"}
                    => /\ flow'.step = "form"
                       /\ flow'.errors = "invalid_auth"
                       /\ entry' = entry
       /\ (flow.step = "form" /\ flow'.step # "form") => flow'.step = "login"
       /\ entry'.exists # entry.exists => flow.step = "login"
      ]_vars

\* The login of the flow met a network failure: the form is shown with
\* invalid_auth and there is no entry.
C28_Witness ==
    /\ flow.step = "form"
    /\ flow.answer = "exception"
    /\ flow.errors = "invalid_auth"
    /\ ~entry.exists

\* C29: the polling interval is set in the step that builds the coordinator
\* and in no other; it is the scan_interval of the entry's options when there
\* is one, otherwise that of the entry's data when there is one, otherwise 60
\* seconds.
C29_IntervalByPrecedence ==
    [][/\ (~loaded /\ pc["poll"] = "idle" /\ pc'["poll"] # "idle")
            => update_interval' = (IF entry.options_scan # {} THEN entry.options_scan
                                   ELSE IF entry.data_scan # {} THEN entry.data_scan
                                   ELSE {60})
       /\ update_interval' # update_interval
            => ~loaded /\ pc["poll"] = "idle" /\ pc'["poll"] # "idle"
      ]_vars

\* The entry was created with 30 seconds in its data, 90 seconds were saved
\* in its options, and the coordinator of the entry set up polls every 90
\* seconds.
C29_Witness ==
    /\ loaded
    /\ entry.data_scan = {30}
    /\ entry.options_scan = {90}
    /\ update_interval = {90}

====
